---- MODULE Spec2Model ----
(***************************************************************************)
(* Model of boot/bootstrap.js: mkpath, download and the manifest loop of   *)
(* main, run by QuickJS (qjs --std) against a POSIX file system.           *)
(*                                                                         *)
(* Strings are sequences of one-character strings, so that lastIndexOf,    *)
(* slice and split are computed as JavaScript computes them.  A file       *)
(* system node is the sequence of the names on the way from the root.     *)
(*                                                                         *)
(* The entries of config.downloads, what std.urlGet returns and how the    *)
(* calls of os end are inputs, drawn when the program reads them.  The     *)
(* code of mkpath expects os.mkdir to throw on failure; the os.mkdir of    *)
(* QuickJS returns -errno instead.  Both conventions are modelled and the  *)
(* one in force is drawn once, in Init (mkdirThrows).                      *)
(***************************************************************************)
EXTENDS Integers, Sequences, FiniteSets, TLC

\* ---------------------------------------------------------------- bounds
MaxLen == 1          \* longest fetched payload, in bytes
MaxEntries == 2      \* longest manifest (config.downloads)

\* ---------------------------------------------------------------- values
Bytes == {0, 1}
Payloads == UNION {[1..m -> Bytes] : m \in 0..MaxLen}

Range(s) == {s[j] : j \in 1..Len(s)}

\* sha256.arrayBufferToHex(sha256.sha256(buf)): a collision-free digest of
\* the whole buffer (1 for the empty buffer, then one binary digit a byte).
RECURSIVE Sha256(_)
Sha256(buf) ==
  IF buf = <<>> THEN 1
  ELSE 2 * Sha256(SubSeq(buf, 1, Len(buf) - 1)) + buf[Len(buf)]

BogusDigest == 0     \* a digest no payload has ("deadbeef...")

\* ------------------------------------------------ JavaScript string code
SLASH == "/"

\* s.lastIndexOf(c): 0-based index of the last c in s, -1 when there is none
LastIndexOf(s, c) ==
  LET hits == {j \in 1..Len(s) : s[j] = c}
  IN  IF hits = {} THEN -1
      ELSE (CHOOSE j \in hits : \A h \in hits : h <= j) - 1

\* s.slice(0, idx) for 0 <= idx <= s.length
SliceTo(s, idx) == SubSeq(s, 1, idx)

\* s.split(c): the pieces between the occurrences of c, empty pieces kept
RECURSIVE Split(_, _)
Split(s, c) ==
  LET hits == {j \in 1..Len(s) : s[j] = c}
  IN  IF hits = {} THEN <<s>>
      ELSE LET j == CHOOSE h \in hits : \A g \in hits : h <= g
           IN  <<SubSeq(s, 1, j - 1)>> \o Split(SubSeq(s, j + 1, Len(s)), c)

\* a string is truthy when it is not empty
Truthy(s) == s # <<>>

\* line 25: subpath += (subpath ? '/' : '') + part
AppendPart(subpath, part) ==
  subpath \o (IF Truthy(subpath) THEN <<SLASH>> ELSE <<>>) \o part

\* a slip: line 15 tests idx < 0, a path '/f' is not passed over
PartsOfRootNotSkipped(filePath) ==
  LET idx == LastIndexOf(filePath, SLASH)
  IN  IF idx < 0 THEN <<>>
      ELSE Split(SliceTo(filePath, idx), SLASH)

\* lines 14-20 of mkpath: the segments mkdir is called for, <<>> on the
\* early return of line 15
PartsOf(filePath) ==
  LET idx == LastIndexOf(filePath, SLASH)
  IN  IF idx <= 0 THEN <<>>
      ELSE Split(SliceTo(filePath, idx), SLASH)

\* ------------------------------------------------------- the file system
\* A node is the sequence of names from the root; Root is the root
\* directory.  fs maps every existing node to a directory or a file.
Root == <<>>
Dir == [kind |-> "dir", data |-> <<>>]
File(bytes) == [kind |-> "file", data |-> bytes]

IsAbsolute(path) == Len(path) > 0 /\ path[1] = SLASH

RECURSIVE NonEmptyPieces(_)
NonEmptyPieces(pieces) ==
  IF pieces = <<>> THEN <<>>
  ELSE (IF Head(pieces) = <<>> THEN <<>> ELSE <<Head(pieces)>>)
       \o NonEmptyPieces(Tail(pieces))

\* the node a path string names for a process whose working directory is wd
Resolve(wd, path) ==
  (IF IsAbsolute(path) THEN Root ELSE wd) \o NonEmptyPieces(Split(path, SLASH))

Exists(f, node) == node \in DOMAIN f
IsDir(f, node) == Exists(f, node) /\ f[node].kind = "dir"
IsFile(f, node) == Exists(f, node) /\ f[node].kind = "file"

\* the error of walking to the directory that holds node, "OK" when every
\* proper prefix of node is an existing directory
LookupErr(f, node) ==
  LET bad == {j \in 0..(Len(node) - 1) : ~IsDir(f, SubSeq(node, 1, j))}
  IN  IF bad = {} THEN "OK"
      ELSE LET j == CHOOSE h \in bad : \A g \in bad : h <= g
           IN  IF Exists(f, SubSeq(node, 1, j)) THEN "ENOTDIR" ELSE "ENOENT"

\* mkdir(2) without a fault of the environment
MkdirErrno(f, wd, path) ==
  LET node == Resolve(wd, path)
  IN  IF path = <<>> THEN "ENOENT"
      ELSE IF LookupErr(f, node) # "OK" THEN LookupErr(f, node)
      ELSE IF Exists(f, node) THEN "EEXIST"
      ELSE "OK"

\* open(2) with O_CREAT | O_RDWR | O_TRUNC without a fault of the environment
OpenErrno(f, wd, path) ==
  LET node == Resolve(wd, path)
  IN  IF path = <<>> THEN "ENOENT"
      ELSE IF LookupErr(f, node) # "OK" THEN LookupErr(f, node)
      ELSE IF IsDir(f, node) THEN "EISDIR"
      ELSE "OK"

\* the faults the environment may add to a call that would otherwise work
Faults == {"EACCES", "ENOSPC"}

\* ------------------------------------------------------------ the inputs
\* working directories of the process
W == <<"w">>
CwdChoices == {<<W>>}

\* file systems the program may start in; the destination "a/f" may hold
\* a file longer than any payload
LongData == [j \in 1..(MaxLen + 1) |-> 1]
BaseFs(wd) == (Root :> Dir) @@ (wd :> Dir)
InitialFs(wd) ==
  { BaseFs(wd),
    BaseFs(wd) @@ ((wd \o <<<<"a">>>>) :> Dir),
    BaseFs(wd) @@ ((wd \o <<<<"a">>>>) :> File(<<1>>)),
    BaseFs(wd) @@ ((wd \o <<<<"a">>>>) :> Dir)
               @@ ((wd \o <<<<"a">>, <<"f">>>>) :> File(LongData)) }

\* url of an entry: "" stands for a missing or empty url
Urls == {"", "u"}
\* filename of an entry: <<>> stands for a missing or empty filename
FileNames ==
  { <<>>,
    <<"f">>,
    <<"/", "f">>,
    <<"a">>,
    <<"a", "/", "f">>,
    <<"/", "a", "/", "f">>,
    <<"a", "/", "b", "/", "f">> }

\* checksums of an entry: not given (null or undefined), or an array
GoodDigest == Sha256(<<1>>)
NoChecksums == [given |-> FALSE, list |-> <<>>]
ChecksumChoices ==
  {NoChecksums} \cup
  {[given |-> TRUE, list |-> l] :
     l \in {<<>>, <<BogusDigest>>, <<GoodDigest>>, <<BogusDigest, GoodDigest>>}}

Entries == [url : Urls, filename : FileNames, checksums : ChecksumChoices]
NoEntry == [url |-> "", filename |-> <<>>, checksums |-> NoChecksums]

\* what std.urlGet(url, {binary: true}) returns: an ArrayBuffer, or null
Null == [buffer |-> FALSE, bytes |-> <<>>]
FetchResults == {[buffer |-> TRUE, bytes |-> b] : b \in Payloads} \cup {Null}

\* a slip: anything the transport returns passes for a buffer
IsAnything(res) == TRUE

\* line 38: dataBuf instanceof ArrayBuffer
IsArrayBuffer(res) == res.buffer

\* line 47: checksums && !checksums.includes(digest); an array is truthy
\* even when it is empty
ChecksumTruthy(checksums) == checksums.given
Includes(list, x) == \E j \in 1..Len(list) : list[j] = x
\* a slip: the test of includes is inverted
ChecksumMismatchInverted(checksums, dig) ==
  ChecksumTruthy(checksums) /\ Includes(checksums.list, dig)

ChecksumMismatch(checksums, dig) ==
  ChecksumTruthy(checksums) /\ ~Includes(checksums.list, dig)

\* line 30: the catch swallows an error whose message names EEXIST
SwallowedByCatch(errno) == errno = "EEXIST"

\* line 27: how os.mkdir(path) may end in file system f, and what it leaves
MkdirCodes(f, wd, path) ==
  IF MkdirErrno(f, wd, path) = "OK" THEN {"OK"} \cup Faults
  ELSE {MkdirErrno(f, wd, path)}
MkdirEffect(f, wd, path, code) ==
  IF code = "OK" THEN (Resolve(wd, path) :> Dir) @@ f ELSE f

\* lines 26-31: the error leaves mkpath: os.mkdir threw it and the catch
\* did not swallow it
LeavesMkpath(throws, code) ==
  code # "OK" /\ throws /\ ~SwallowedByCatch(code)

\* a slip: O_TRUNC is left out, an existing file keeps what it holds
OpenedFileNoTrunc(f, node) == IF IsFile(f, node) THEN f[node] ELSE File(<<>>)

\* lines 59-63: O_TRUNC empties the file, O_CREAT creates it empty
OpenedFile(f, node) == File(<<>>)

\* line 68: os.write(fd, buf, 0, n) puts the first n bytes of buf at the
\* descriptor's position, 0 after open, over what the file holds there
WrittenData(old, buf, n) ==
  IF n <= 0 THEN old
  ELSE SubSeq(buf, 1, n) \o SubSeq(old, n + 1, Len(old))

\* what os.write may return: the count of bytes written, or < 0 on error
WriteReturns(buf) == {-1} \cup (0..Len(buf))

\* slips: only an error return counts, or only a count that is too small
ShortWriteOnlyOnError(n, buf) == n < 0
ShortWriteIgnoresError(n, buf) == n >= 0 /\ n # Len(buf)

\* line 70: written !== dataBuf.byteLength
ShortWrite(n, buf) == n # Len(buf)

\* ------------------------------------------------------------- the state
VARIABLES
  cwd,          \* working directory of the process
  mkdirThrows,  \* whether os.mkdir reports an error by throwing (TRUE) or
                \* by returning -errno (FALSE, as QuickJS does)
  fs,           \* the file system
  total,        \* config.downloads.length
  i,            \* 1-based position of the loop of main in config.downloads
  entry,        \* the entry the loop is at
  pc,           \* where the program is
  dataBuf,      \* what std.urlGet returned
  digest, parts, subpath, fd, written,   \* locals of download and mkpath
  errno,        \* the last call of os.mkdir or os.open and how it ended
  msgs,         \* what was printed to std.out and std.err, in order
  exitCode,     \* -1 while running, else the status of os.exit or of the end
  fsPre,        \* the file system when the current request began
  ops,          \* per request, how often each step ran
  calls         \* the calls of mkpath made on its own, outside download:
                \* <<>> in a run of main

vars == <<cwd, mkdirThrows, fs, total, i, entry, pc, dataBuf, digest, parts,
          subpath, fd, written, errno, msgs, exitCode, fsPre, ops, calls>>

NoCall == [call |-> "none", code |-> "OK"]

Steps == {"fetch", "digest", "mkpath", "mkdir", "open", "write", "close", "check", "done"}
NoOps == [s \in Steps |-> 0]
Bump(step) == [ops EXCEPT ![i][step] = @ + 1]

Msg(kind, path, a, b, list) ==
  [kind |-> kind, path |-> path, a |-> a, b |-> b, list |-> list]

\* the process before main runs
InitProcess ==
  /\ cwd \in CwdChoices
  /\ mkdirThrows \in BOOLEAN
  /\ fs \in InitialFs(cwd)
  /\ total = 0
  /\ i = 1
  /\ entry = NoEntry
  /\ pc = "load"
  /\ dataBuf = Null
  /\ digest = 0
  /\ errno = NoCall
  /\ parts = <<>>
  /\ subpath = <<>>
  /\ fd = -1
  /\ written = 0
  /\ msgs = <<>>
  /\ exitCode = -1
  /\ fsPre = fs
  /\ ops = [r \in 1..MaxEntries |-> NoOps]

Init ==
  /\ InitProcess
  /\ calls = <<>>

\* a slip: the message is printed but the process is not ended, so the
\* call returns and the loop of main goes on
ExitWithAndGoOn(m) ==
  /\ msgs' = Append(msgs, m)
  /\ pc' = "done"
  /\ exitCode' = exitCode

\* os.exit(1) after printing m
ExitWith(m) ==
  /\ msgs' = Append(msgs, m)
  /\ pc' = "exit"
  /\ exitCode' = 1

\* ----------------------------------------------------------- the actions
\* main, lines 84-105: read and parse boot/config.json
LoadConfig ==
  /\ pc = "load"
  /\ \E ok \in BOOLEAN :
       IF ok
       THEN /\ \E len \in 0..MaxEntries : total' = len
            /\ pc' = "loop"
            /\ UNCHANGED <<msgs, exitCode>>
       ELSE /\ ExitWith(Msg("config", <<>>, 0, 0, <<>>))
            /\ UNCHANGED total
  /\ UNCHANGED <<calls, cwd, mkdirThrows, fs, i, entry, dataBuf, digest, parts,
                 subpath, fd, written, errno, fsPre, ops>>

\* a slip: only the url is looked at
InvalidEntryUrlOnly(e) == e.url = ""

\* line 110: !url || !filename; a missing property reads as undefined and
\* is falsy like the empty string
InvalidEntry(e) == e.url = "" \/ ~Truthy(e.filename)

\* main, lines 108-114: take the next entry, reject one without url or
\* filename, else call download; after the last entry main returns
NextEntry ==
  /\ pc = "loop"
  /\ IF i > total
     THEN /\ pc' = "end"
          /\ exitCode' = 0
          /\ UNCHANGED <<entry, msgs, fsPre>>
     ELSE \E e \in Entries :
            /\ entry' = e
            /\ fsPre' = fs
            /\ IF InvalidEntry(e)
               THEN ExitWith(Msg("invalid", <<>>, 0, 0, <<>>))
               ELSE /\ pc' = "fetch"
                    /\ UNCHANGED <<msgs, exitCode>>
  /\ dataBuf' = Null
  /\ digest' = 0
  /\ errno' = NoCall
  /\ parts' = <<>>
  /\ subpath' = <<>>
  /\ fd' = -1
  /\ written' = 0
  /\ UNCHANGED <<calls, cwd, mkdirThrows, fs, total, i, ops>>

\* download, lines 37-41
Fetch ==
  /\ pc = "fetch"
  /\ ops' = Bump("fetch")
  /\ \E res \in FetchResults :
       /\ dataBuf' = res
       /\ IF IsArrayBuffer(res)
          THEN /\ pc' = "verify"
               /\ UNCHANGED <<msgs, exitCode>>
          ELSE ExitWith(Msg("fetch", <<>>, 0, 0, <<>>))
  /\ UNCHANGED <<calls, cwd, mkdirThrows, fs, total, i, entry, digest, parts,
                 subpath, fd, written, errno, fsPre>>

\* download, lines 44-55
Verify ==
  /\ pc = "verify"
  /\ ops' = Bump("digest")
  /\ digest' = Sha256(dataBuf.bytes)
  /\ IF ChecksumMismatch(entry.checksums, digest')
     THEN ExitWith(Msg("mismatch", entry.filename, digest', 0,
                       entry.checksums.list))
     ELSE /\ pc' = "mkpath"
          /\ UNCHANGED <<msgs, exitCode>>
  /\ UNCHANGED <<calls, cwd, mkdirThrows, fs, total, i, entry, dataBuf, parts,
                 subpath, fd, written, errno, fsPre>>

\* mkpath, lines 14-23
MkpathEnter ==
  /\ pc = "mkpath"
  /\ ops' = Bump("mkpath")
  /\ parts' = PartsOf(entry.filename)
  /\ subpath' = <<>>
  /\ pc' = IF parts' = <<>> THEN "open" ELSE "mkdir"
  /\ UNCHANGED <<calls, cwd, mkdirThrows, fs, total, i, entry, dataBuf, digest, fd,
                 written, errno, msgs, exitCode, fsPre>>

\* a slip: the loop of mkpath does not move to the next segment and tries
\* the first one again and again
MkdirStepStuck ==
  /\ pc = "mkdir"
  /\ \E code \in MkdirCodes(fs, cwd, AppendPart(<<>>, Head(parts))) :
       /\ errno' = [call |-> "mkdir", code |-> code]
       /\ fs' = MkdirEffect(fs, cwd, AppendPart(<<>>, Head(parts)), code)
       /\ pc' = IF LeavesMkpath(mkdirThrows, code) THEN "rejected" ELSE "mkdir"
  /\ UNCHANGED <<calls, cwd, mkdirThrows, total, i, entry, dataBuf, digest, fd,
                 written, msgs, exitCode, fsPre, ops, parts, subpath>>

\* mkpath, lines 24-32: one turn of the loop; parts holds the segments
\* still to come
MkdirStep ==
  /\ pc = "mkdir"
  /\ ops' = Bump("mkdir")
  /\ subpath' = AppendPart(subpath, Head(parts))
  /\ parts' = Tail(parts)
  /\ \E code \in MkdirCodes(fs, cwd, subpath') :
       /\ errno' = [call |-> "mkdir", code |-> code]
       /\ fs' = MkdirEffect(fs, cwd, subpath', code)
       \* a thrown error that the catch rethrows leaves mkpath, download
       \* and main, which nothing catches: the run ends there
       /\ pc' = IF LeavesMkpath(mkdirThrows, code)
                THEN "rejected"
                ELSE IF parts' = <<>> THEN "open" ELSE "mkdir"
  /\ UNCHANGED <<calls, cwd, mkdirThrows, total, i, entry, dataBuf, digest, fd,
                 written, msgs, exitCode, fsPre>>

\* the number of an error of os.open; QuickJS returns its negative
ErrnoNumber(code) ==
  CASE code = "ENOENT"  -> 2
    [] code = "EACCES"  -> 13
    [] code = "ENOTDIR" -> 20
    [] code = "EISDIR"  -> 21
    [] code = "ENOSPC"  -> 28

\* the descriptor os.open hands to the program
FirstFreeFd == 3

\* a slip: only -1 is taken for a failed open
OpenFailedOnlyMinusOne(fdv) == fdv = -1

\* line 63: if (fd < 0)
OpenFailed(fdv) == fdv < 0

\* download, lines 59-67
Open ==
  /\ pc = "open"
  /\ ops' = Bump("open")
  /\ \E code \in (IF OpenErrno(fs, cwd, entry.filename) = "OK"
                  THEN {"OK"} \cup Faults
                  ELSE {OpenErrno(fs, cwd, entry.filename)}) :
       /\ errno' = [call |-> "open", code |-> code]
       /\ fd' = IF code = "OK" THEN FirstFreeFd ELSE -ErrnoNumber(code)
       /\ fs' = IF code = "OK"
                THEN [n \in DOMAIN fs \cup {Resolve(cwd, entry.filename)} |->
                        IF n = Resolve(cwd, entry.filename)
                        THEN OpenedFile(fs, n) ELSE fs[n]]
                ELSE fs
       /\ IF OpenFailed(fd')
          THEN ExitWith(Msg("open", entry.filename, 0, 0, <<>>))
          ELSE /\ pc' = "write"
               /\ UNCHANGED <<msgs, exitCode>>
  /\ UNCHANGED <<calls, cwd, mkdirThrows, total, i, entry, dataBuf, digest, parts,
                 subpath, written, fsPre>>

\* a slip: after a short write download reports at once and leaves the
\* descriptor open
WriteLeaksOnShort ==
  /\ pc = "write"
  /\ ops' = Bump("write")
  /\ \E n \in WriteReturns(dataBuf.bytes) :
       /\ written' = n
       /\ fs' = [fs EXCEPT ![Resolve(cwd, entry.filename)] =
                   File(WrittenData(@.data, dataBuf.bytes, n))]
       /\ pc' = IF ShortWrite(n, dataBuf.bytes) THEN "check" ELSE "close"
  /\ UNCHANGED <<calls, cwd, mkdirThrows, total, i, entry, dataBuf, digest, parts,
                 subpath, fd, errno, msgs, exitCode, fsPre>>

\* download, line 68
Write ==
  /\ pc = "write"
  /\ ops' = Bump("write")
  /\ \E n \in WriteReturns(dataBuf.bytes) :
       /\ written' = n
       /\ fs' = [fs EXCEPT ![Resolve(cwd, entry.filename)] =
                   File(WrittenData(@.data, dataBuf.bytes, n))]
  /\ pc' = "close"
  /\ UNCHANGED <<calls, cwd, mkdirThrows, total, i, entry, dataBuf, digest, parts,
                 subpath, fd, errno, msgs, exitCode, fsPre>>

\* download, line 69
Close ==
  /\ pc = "close"
  /\ ops' = Bump("close")
  /\ fd' = -1
  /\ pc' = "check"
  /\ UNCHANGED <<calls, cwd, mkdirThrows, fs, total, i, entry, dataBuf, digest,
                 parts, subpath, written, errno, msgs, exitCode, fsPre>>

\* download, lines 70-80
Check ==
  /\ pc = "check"
  /\ ops' = Bump("check")
  /\ IF ShortWrite(written, dataBuf.bytes)
     THEN ExitWith(Msg("short", entry.filename, written, Len(dataBuf.bytes),
                       <<>>))
     ELSE /\ msgs' = Append(msgs, Msg("downloaded", entry.filename, written,
                                      0, <<>>))
          /\ pc' = "done"
          /\ UNCHANGED exitCode
  /\ UNCHANGED <<calls, cwd, mkdirThrows, fs, total, i, entry, dataBuf, digest,
                 parts, subpath, fd, written, errno, fsPre>>

\* a slip: the loop does not move on and the same entry is downloaded again
ReturnAndRetry ==
  /\ pc = "done"
  /\ ops' = Bump("done")
  /\ pc' = "fetch"
  /\ UNCHANGED <<calls, cwd, mkdirThrows, fs, total, i, entry, dataBuf, digest, parts,
                 subpath, fd, written, errno, msgs, exitCode, fsPre>>

\* a slip: the loop of main steps over the entry that follows
ReturnSkipsEntry ==
  /\ pc = "done"
  /\ ops' = Bump("done")
  /\ i' = i + 2
  /\ pc' = "loop"
  /\ UNCHANGED <<calls, cwd, mkdirThrows, fs, total, entry, dataBuf, digest, parts,
                 subpath, fd, written, errno, msgs, exitCode, fsPre>>

\* download returns, line 81, and the loop of main goes on, line 108
Return ==
  /\ pc = "done"
  /\ ops' = Bump("done")
  /\ i' = i + 1
  /\ pc' = "loop"
  /\ UNCHANGED <<calls, cwd, mkdirThrows, fs, total, entry, dataBuf, digest, parts,
                 subpath, fd, written, errno, msgs, exitCode, fsPre>>

Next ==
  \/ LoadConfig
  \/ NextEntry
  \/ Fetch
  \/ Verify
  \/ MkpathEnter
  \/ MkdirStep
  \/ Open
  \/ Write
  \/ Close
  \/ Check
  \/ Return

Spec == Init /\ [][Next]_vars

\* the runtime runs the program on while a statement is left to run, and
\* every call into std and os returns
FairSpec == Spec /\ WF_vars(Next)

\* --------------------------------------------- mkpath called on its own
\* Two callers call mkpath(path) once each, in any order and with the
\* turns of their loops interleaved in any way; a caller may also start
\* after the other has returned.
Callers == {1, 2}
CallPaths ==
  { <<"f">>,
    <<"/", "f">>,
    <<"a", "/", "f">>,
    <<"a", "/", "b", "/", "f">>,
    <<"/", "a", "/", "f">>,
    <<"/", "a", "/", "b", "/", "f">> }

\* a call: filePath, where it is, the locals of mkpath, and what is kept
\* of its past: whether the environment failed one of its os.mkdir, how
\* many os.mkdir it made, the file system when it began and the callers
\* that had returned by then
NewCall(path, f) ==
  [path |-> path, pc |-> "idle", parts |-> <<>>, subpath |-> <<>>,
   fault |-> FALSE, mkdirs |-> 0, before |-> f, after |-> {}]

MkpathInit ==
  /\ InitProcess
  /\ \E p1 \in CallPaths, p2 \in CallPaths :
       calls = <<NewCall(p1, fs), NewCall(p2, fs)>>

\* mkpath, lines 14-23, for caller p
CallMkpath(p) ==
  /\ calls[p].pc = "idle"
  /\ calls' = [calls EXCEPT ![p] =
       [@ EXCEPT !.parts = PartsOf(calls[p].path),
                 !.subpath = <<>>,
                 !.pc = IF PartsOf(calls[p].path) = <<>> THEN "returned"
                        ELSE "mkdir",
                 !.before = fs,
                 !.after = {q \in Callers \ {p} : calls[q].pc = "returned"}]]
  /\ UNCHANGED <<cwd, mkdirThrows, fs, total, i, entry, pc, dataBuf, digest,
                 parts, subpath, fd, written, errno, msgs, exitCode, fsPre,
                 ops>>

\* mkpath, lines 24-32, for caller p: one turn of the loop
CallMkdir(p) ==
  /\ calls[p].pc = "mkdir"
  /\ LET sp == AppendPart(calls[p].subpath, Head(calls[p].parts))
         rest == Tail(calls[p].parts)
     IN  \E code \in MkdirCodes(fs, cwd, sp) :
           /\ fs' = MkdirEffect(fs, cwd, sp, code)
           /\ calls' = [calls EXCEPT ![p] =
                [@ EXCEPT !.subpath = sp,
                          !.parts = rest,
                          !.fault = @ \/ code \in Faults,
                          !.mkdirs = @ + 1,
                          !.pc = IF LeavesMkpath(mkdirThrows, code)
                                 THEN "thrown"
                                 ELSE IF rest = <<>> THEN "returned"
                                 ELSE "mkdir"]]
  /\ UNCHANGED <<cwd, mkdirThrows, total, i, entry, pc, dataBuf, digest,
                 parts, subpath, fd, written, errno, msgs, exitCode, fsPre,
                 ops>>

MkpathNext ==
  \/ \E p \in Callers : CallMkpath(p)
  \/ \E p \in Callers : CallMkdir(p)

MkpathSpec == MkpathInit /\ [][MkpathNext]_vars

\* ------------------------------------------------- words for the claims
Dest == Resolve(cwd, entry.filename)
Payload == dataBuf.bytes
LastMsg == msgs[Len(msgs)]
Failed == pc \in {"exit", "rejected"}
\* the fetch of the current request returned a buffer and download went on
GotBuffer == i <= total /\ ops[i]["fetch"] > 0 /\ dataBuf.buffer
Reported(kind) == msgs # <<>> /\ LastMsg.kind = kind
Successes == Cardinality({j \in 1..Len(msgs) : msgs[j].kind = "downloaded"})
ChecksumSet == Range(entry.checksums.list)

\* C1: whenever download has printed 'Downloaded', the destination is an
\* existing file whose length is the payload's byte length, which is the
\* count printed, and a non-empty checksums array holds the payload's digest
SuccessMeansVerifiedFile ==
  pc = "done" =>
    /\ IsFile(fs, Dest)
    /\ Len(fs[Dest].data) = Len(Payload)
    /\ LastMsg.kind = "downloaded" /\ LastMsg.a = Len(Payload)
    /\ (entry.checksums.given /\ ChecksumSet # {} =>
          Sha256(Payload) \in ChecksumSet)

\* reached: a success with a checked, non-empty payload over an old file
SuccessMeansVerifiedFileWitness ==
  /\ pc = "done"
  /\ ChecksumSet # {}
  /\ Len(Payload) > 0
  /\ IsFile(fsPre, Dest)

\* C2: round trip.  With checksums = [digest of P] the request is never
\* refused for its checksum: it fails only when mkdir threw, open failed or
\* the write was short; and when it succeeds the destination holds exactly
\* P, whatever it held before
RoundTrip ==
  (GotBuffer /\ entry.checksums.given
     /\ entry.checksums.list = <<Sha256(Payload)>>) =>
    /\ pc = "done" => IsFile(fs, Dest) /\ fs[Dest].data = Payload
    /\ pc = "rejected" => errno.call = "mkdir" /\ errno.code \notin {"OK", "EEXIST"}
    /\ pc = "exit" =>
         \/ Reported("open") /\ fd < 0 /\ errno.code # "OK"
         \/ Reported("short") /\ written # Len(Payload)

\* reached: the checksum is the payload's, the old file was longer than
\* the payload, and the download succeeded
RoundTripWitness ==
  /\ pc = "done"
  /\ entry.checksums.list = <<Sha256(Payload)>>
  /\ Len(Payload) > 0
  /\ IsFile(fsPre, Dest)
  /\ Len(fsPre[Dest].data) > Len(Payload)
  /\ fs[Dest].data = Payload

\* C3: rejection.  Once the digest of a fetched payload is computed and is
\* not in a non-empty checksums array, download has ended with the checksum
\* mismatch, has not reported success, and nothing was done to the file
\* system: no mkpath, mkdir, open or write, and fs is as it was
Rejection ==
  (GotBuffer /\ ops[i]["digest"] > 0 /\ entry.checksums.given
     /\ ChecksumSet # {} /\ Sha256(Payload) \notin ChecksumSet) =>
    /\ pc = "exit" /\ exitCode = 1
    /\ Reported("mismatch")
    /\ LastMsg.a = Sha256(Payload) /\ LastMsg.list = entry.checksums.list
    /\ Successes = i - 1
    /\ \A st \in {"mkpath", "mkdir", "open", "write", "close"} : ops[i][st] = 0
    /\ fs = fsPre

\* reached: a mismatch for a destination that held a file before
RejectionWitness ==
  /\ Reported("mismatch")
  /\ ChecksumSet # {}
  /\ Sha256(Payload) \notin ChecksumSet
  /\ IsFile(fsPre, Dest)
  /\ fs = fsPre

\* C4: no-check mode.  With checksums absent or an empty array a fetched
\* payload is never refused for its checksum, and on success the file holds
\* the payload as fetched
NoCheckMode ==
  (GotBuffer /\ (~entry.checksums.given \/ entry.checksums.list = <<>>)) =>
    /\ ~(pc = "exit" /\ Reported("mismatch"))
    /\ pc = "done" => IsFile(fs, Dest) /\ fs[Dest].data = Payload

\* node is in fs what it was when the current request began
Untouched(node) ==
  IF Exists(fsPre, node) THEN Exists(fs, node) /\ fs[node] = fsPre[node]
  ELSE ~Exists(fs, node)

\* C5: when the run has ended in failure, the destination of the request
\* that failed is as it was before the request, or holds the whole payload
NoPartialFileLeft ==
  Failed =>
    \/ Untouched(Dest)
    \/ GotBuffer /\ IsFile(fs, Dest) /\ fs[Dest].data = Payload

\* C6: short write.  Once the count returned by os.write has been compared
\* and differs from the payload's length, download has ended with the
\* message that carries both counts and has not reported success
ShortWriteDetected ==
  (i <= total /\ ops[i]["check"] > 0 /\ written # Len(Payload)) =>
    /\ pc = "exit" /\ exitCode = 1
    /\ Reported("short")
    /\ LastMsg.a = written /\ LastMsg.b = Len(Payload)
    /\ Successes = i - 1

\* reached: fewer bytes written than the payload has
ShortWriteDetectedWitness ==
  /\ Reported("short")
  /\ written >= 0
  /\ written < Len(Payload)

\* C7: fetch failure.  Once std.urlGet has returned something that is no
\* ArrayBuffer, download has ended: one fetch, no digest, no mkpath, mkdir,
\* open, write or close, the file system as it was, no success reported
FetchFailure ==
  (i <= total /\ ops[i]["fetch"] > 0 /\ ~dataBuf.buffer) =>
    /\ pc = "exit" /\ exitCode = 1
    /\ Reported("fetch")
    /\ ops[i]["fetch"] = 1
    /\ \A st \in Steps \ {"fetch"} : ops[i][st] = 0
    /\ fs = fsPre
    /\ Successes = i - 1

\* reached: the fetch of the second entry failed after the first succeeded
FetchFailureWitness ==
  /\ i = 2
  /\ ops[2]["fetch"] = 1
  /\ ~dataBuf.buffer
  /\ Reported("fetch")

\* the steps of a request in the order of download, the counts that order
\* allows, and the moves of the program counter it allows
StepChain == <<"fetch", "digest", "mkpath", "open", "write", "close", "check", "done">>
StepCounts ==
  \A r \in 1..MaxEntries :
    /\ \A st \in Steps \ {"mkdir"} : ops[r][st] <= 1
    /\ \A j \in 1..(Len(StepChain) - 1) :
         ops[r][StepChain[j + 1]] <= ops[r][StepChain[j]]
    /\ ops[r]["mkdir"] > 0 => ops[r]["mkpath"] = 1
    /\ (r = i /\ ops[r]["open"] > 0) => parts = <<>>
    /\ r < i => \A st \in Steps \ {"mkdir"} : ops[r][st] = 1
    /\ r > i => ops[r] = NoOps
StepSuccessors ==
  { <<"load", "loop">>, <<"load", "exit">>,
    <<"loop", "fetch">>, <<"loop", "exit">>, <<"loop", "end">>,
    <<"fetch", "verify">>, <<"fetch", "exit">>,
    <<"verify", "mkpath">>, <<"verify", "exit">>,
    <<"mkpath", "mkdir">>, <<"mkpath", "open">>,
    <<"mkdir", "mkdir">>, <<"mkdir", "open">>, <<"mkdir", "rejected">>,
    <<"open", "write">>, <<"open", "exit">>,
    <<"write", "close">>,
    <<"close", "check">>,
    <<"check", "done">>, <<"check", "exit">>,
    <<"done", "loop">> }

\* C8: step order.  The steps of a request run in the order fetch, digest
\* and verify, mkpath, open, write, close, completeness check, done; each
\* at most once and none before the one it follows; a request that is done
\* ran each of them exactly once; after a failure nothing runs any more
StepOrder ==
  /\ []StepCounts
  /\ [][ /\ <<pc, pc'>> \in StepSuccessors
         /\ (Failed \/ pc = "end") => UNCHANGED <<fs, ops, msgs>> ]_vars

\* reached: the first request is done and the second failed at its last step
StepOrderWitness ==
  /\ i = 2
  /\ pc = "exit"
  /\ Reported("short")
  /\ ops[1]["done"] = 1

\* every proper prefix of the node that path names is a directory
AncestorsExist(path) ==
  \A j \in 0..(Len(Resolve(cwd, path)) - 1) :
    IsDir(fs, SubSeq(Resolve(cwd, path), 1, j))

\* C9: after mkpath has returned normally, every ancestor directory of the
\* file path exists, for relative and for absolute paths
MkpathMakesAncestors ==
  (i <= total /\ pc = "open") => AncestorsExist(entry.filename)

\* C10: an os.mkdir that fails because the directory exists is passed over
\* and mkpath goes on; one that fails for another reason ends mkpath, and
\* download with it, before the destination is opened
MkdirFailurePropagates ==
  errno.call = "mkdir" =>
    /\ errno.code = "EEXIST" => pc \in {"mkdir", "open"}
    /\ errno.code \notin {"OK", "EEXIST"} => pc = "rejected"

\* C11: a call of mkpath made after a call for the same path has returned
\* raises no error and leaves the file system as that first call left it
MkpathIdempotent ==
  \A p \in Callers : \A q \in calls[p].after :
    (calls[p].path = calls[q].path /\ calls[p].pc # "idle") =>
      /\ calls[p].pc # "thrown"
      /\ fs = calls[p].before

\* the path has no '/' but, at most, as its first character
SlashOnlyFirst(path) == \A j \in 2..Len(path) : path[j] # SLASH

\* C12: for a file path with no '/', or with its only '/' in front, mkpath
\* calls os.mkdir not once and returns with the file system as it was
MkpathNoOp ==
  (i <= total /\ ops[i]["mkpath"] > 0 /\ SlashOnlyFirst(entry.filename)) =>
    /\ ops[i]["mkdir"] = 0
    /\ pc # "mkdir"
    /\ errno.call # "mkdir"
    /\ pc = "open" => fs = fsPre

\* reached: mkpath has returned for '/f', and for 'f'
MkpathNoOpWitness ==
  /\ pc = "open"
  /\ entry.filename = <<"/", "f">>
  /\ ops[i]["mkpath"] = 1
  /\ i = 2
  /\ ops[1]["mkpath"] = 1 /\ ops[1]["mkdir"] = 0

\* the directories on the way to the file that path names, the root included
Ancestors(path) ==
  {SubSeq(Resolve(cwd, path), 1, j) : j \in 0..(Len(Resolve(cwd, path)) - 1)}
\* the directories above the working directory, and itself
AboveCwd == {SubSeq(cwd, 1, j) : j \in 0..Len(cwd)}

\* C13: two calls of mkpath for distinct paths that share an ancestor
\* directory, their os.mkdir calls interleaved in any way, with no fault of
\* the environment and no regular file where a directory is due: neither
\* call fails, and once both have returned every ancestor directory of
\* both paths exists
MkpathRaceTolerated ==
  \A p \in Callers : \A q \in Callers \ {p} :
    ( /\ calls[p].path # calls[q].path
      /\ (Ancestors(calls[p].path) \cap Ancestors(calls[q].path)) \ AboveCwd # {}
      /\ ~calls[p].fault /\ ~calls[q].fault
      /\ \A n \in Ancestors(calls[p].path) \cup Ancestors(calls[q].path) :
           ~IsFile(fs, n) ) =>
      /\ calls[p].pc # "thrown"
      /\ (calls[p].pc = "returned" /\ calls[q].pc = "returned") =>
           \A n \in Ancestors(calls[p].path) : IsDir(fs, n)

FailureKinds == {"fetch", "mismatch", "open", "short"}
SuccessesBefore(j) ==
  Cardinality({k \in 1..(j - 1) : msgs[k].kind = "downloaded"})
\* C14: once the download of an entry has failed (its failure message is
\* printed, or a directory-creation error left mkpath), nothing is printed
\* after it, the program stays ended, and no later entry of the manifest has
\* had any step: no fetch, no mkdir, no open, no write
AbortOnFirstFailure ==
  /\ \A j \in 1..Len(msgs) :
       msgs[j].kind \in FailureKinds =>
         /\ j = Len(msgs)
         /\ pc = "exit"
         /\ exitCode = 1
         /\ i = SuccessesBefore(j) + 1
         /\ \A r \in (SuccessesBefore(j) + 2)..MaxEntries : ops[r] = NoOps
  /\ pc = "rejected" =>
       /\ errno.call = "mkdir"
       /\ \A r \in (i + 1)..MaxEntries : ops[r] = NoOps

AbortOnFirstFailureWitness ==
  /\ pc = "exit"
  /\ total = 2
  /\ i = 1
  /\ Reported("short")
  /\ ops[1]["write"] = 1

FullyDone(r) ==
  /\ ops[r]["fetch"] = 1
  /\ ops[r]["write"] = 1
  /\ ops[r]["close"] = 1
  /\ ops[r]["check"] = 1
  /\ ops[r]["done"] = 1
Started == {r \in 1..MaxEntries : ops[r] # NoOps}
InFlight == {r \in Started : ops[r]["done"] = 0}
\* C15: the entries are processed one after the other in manifest order: at
\* most one request is begun and not yet returned, it is the one the loop is
\* at, every entry before it was fetched once, written, closed, checked and
\* reported as downloaded, and no entry behind it has had any step
StrictlySequential ==
  /\ Cardinality(InFlight) <= 1
  /\ InFlight \subseteq {i}
  /\ \A r \in Started :
       /\ r <= total
       /\ \A q \in 1..(r - 1) : FullyDone(q)
       /\ Successes >= r - 1
       /\ \A q \in 1..(r - 1) : msgs[q].kind = "downloaded"
  /\ pc = "end" => \A r \in 1..total : FullyDone(r)

StrictlySequentialWitness ==
  /\ i = 2
  /\ pc = "write"
  /\ FullyDone(1)
  /\ ops[2]["fetch"] = 1

\* C16: when os.open of the destination of the current request ended in an
\* error, the descriptor is negative, the open was tried once and not again,
\* neither os.write nor os.close nor the length check ran for the request,
\* 'Downloaded' was not printed for it, and the program has exited with
\* status 1 after 'Failed to open'
OpenFailureFails ==
  (i <= total /\ errno.call = "open" /\ errno.code # "OK") =>
    /\ fd < 0
    /\ pc = "exit"
    /\ exitCode = 1
    /\ Reported("open")
    /\ LastMsg.path = entry.filename
    /\ ops[i]["open"] = 1
    /\ ops[i]["write"] = 0
    /\ ops[i]["close"] = 0
    /\ ops[i]["check"] = 0
    /\ ops[i]["done"] = 0
    /\ Successes = i - 1

OpenFailureFailsWitness ==
  /\ pc = "exit"
  /\ errno = [call |-> "open", code |-> "EACCES"]
  /\ fd = -13
  /\ i = 2
  /\ Successes = 1

Ended == pc \in {"end", "exit", "rejected"}
SlashCount(path) == Cardinality({j \in 1..Len(path) : path[j] = SLASH})
\* the segments of the directory part of path: as many as path has '/',
\* none when its only '/' is in front
DirSegments(path) ==
  IF \E j \in 2..Len(path) : path[j] = SLASH THEN SlashCount(path) ELSE 0
OneAttemptPerSegment ==
  (i <= total /\ ops[i]["mkpath"] = 1) =>
    /\ ops[i]["mkdir"] + Len(parts) = DirSegments(entry.filename)
    /\ pc \in {"open", "write", "close", "check", "done"} =>
         ops[i]["mkdir"] = DirSegments(entry.filename)
\* at the end of the run every request that was begun has returned from
\* download, or is the one whose failure ended the run
EveryRequestResolved ==
  Ended => \A r \in 1..MaxEntries :
             ops[r]["fetch"] = 1 => (ops[r]["done"] = 1 \/ (Failed /\ r = i))
\* C17: every run ends (main returns, the process exits, or an error leaves
\* main) and then every request that was begun has returned or failed, and
\* the loop of mkpath makes one os.mkdir attempt for each segment of the
\* directory part, no more and no fewer
Terminates ==
  /\ [](OneAttemptPerSegment /\ EveryRequestResolved)
  /\ <>Ended

TerminatesWitness ==
  /\ pc = "end"
  /\ total = 2
  /\ ops[2]["mkdir"] = 2
  /\ ops[2]["done"] = 1
  /\ ops[1]["done"] = 1

\* os.open of the request the loop is at succeeded; at the head of the
\* loop errno is still that of the request before
OpenSucceeded ==
  i <= total /\ pc # "loop" /\ errno.call = "open" /\ errno.code = "OK"
\* C18: when os.open of the destination succeeded, the descriptor is open
\* until os.close, which runs once, after the one os.write and before the
\* length check; so when the request ends, by 'Downloaded' or by 'Short
\* write', the descriptor was written once, closed once and is open no more
NoDescriptorLeak ==
  OpenSucceeded =>
    /\ ops[i]["open"] = 1
    /\ ops[i]["write"] <= 1
    /\ ops[i]["close"] <= ops[i]["write"]
    /\ ops[i]["check"] <= ops[i]["close"]
    /\ (fd = FirstFreeFd) = (ops[i]["close"] = 0)
    /\ pc \in {"write", "close", "check", "done", "exit"}
    /\ pc \in {"check", "done", "exit"} =>
         /\ ops[i]["write"] = 1
         /\ ops[i]["close"] = 1
         /\ fd # FirstFreeFd
    /\ (Reported("short") \/ Successes = i) =>
         /\ ops[i]["close"] = 1
         /\ fd # FirstFreeFd

NoDescriptorLeakShortWitness ==
  /\ OpenSucceeded
  /\ pc = "exit"
  /\ Reported("short")
  /\ written < Len(dataBuf.bytes)
  /\ ops[i]["close"] = 1
  /\ fd = -1

\* C19: when the loop of main has taken an entry whose url or filename is
\* missing or empty, the program has exited with status 1 after 'Invalid
\* entry', no step (fetch, digest, mkdir, open, write) was made for that
\* entry or for any entry behind it, the file system is as it was when the
\* entry was taken, and every entry before it was fetched, written, closed,
\* checked and reported as downloaded and its file is there
InvalidEntryRejected ==
  (i <= total /\ pc # "loop" /\ (entry.url = "" \/ entry.filename = <<>>)) =>
    /\ pc = "exit"
    /\ exitCode = 1
    /\ Reported("invalid")
    /\ \A r \in i..MaxEntries : ops[r] = NoOps
    /\ fs = fsPre
    /\ \A r \in 1..(i - 1) :
         /\ FullyDone(r)
         /\ msgs[r].kind = "downloaded"
         /\ IsFile(fs, Resolve(cwd, msgs[r].path))
    /\ Successes = i - 1

InvalidEntryRejectedWitness ==
  /\ pc = "exit"
  /\ i = 2
  /\ Reported("invalid")
  /\ entry.url = "u"
  /\ entry.filename = <<>>
  /\ Successes = 1
  /\ IsFile(fs, Resolve(cwd, msgs[1].path))
  /\ ~IsFile(BaseFs(cwd), Resolve(cwd, msgs[1].path))

====
